---- MODULE Spec2Model ----
(***************************************************************************)
(* Quit Smoking Gamified API (src/main.py, src/schemas.py).                *)
(*                                                                         *)
(* The store is three collections: userprofile, checkin and badge.  A      *)
(* collection is a bag of documents (the _id, name, currency, icon,        *)
(* description, created_at and updated_at fields are left out: no          *)
(* statement below reads them).  Instants are counted in hours since the   *)
(* epoch, calendar dates in days since the epoch, money in cents.          *)
(*                                                                         *)
(* The handlers that only read (get_user, list_checkins, list_badges, the  *)
(* root, /test and /schema routes) and create_craving, which writes the    *)
(* craving collection that nothing reads, change none of this state and    *)
(* have no action.                                                         *)
(***************************************************************************)
EXTENDS Integers, Sequences, FiniteSets, Bags, TLC

VARIABLES now, userprofile, checkin, badge, last, procs

vars == <<now, userprofile, checkin, badge, last, procs>>

(* ------------------------------ bounds --------------------------------- *)

\* The last calendar day the clock reaches while requests are served.
MaxDay == 2

\* The last calendar day of the check-in logs the statistics are computed on.
MaxStatDay == 3

(* ------------------------------ inputs --------------------------------- *)

\* Python's None, and a request field that was not sent; both lie outside
\* every set of dates, counts and amounts.
None == -1
Unset == -2

Uids == {"u1"}
Procs == {"p1", "p2"}

Days == 0..MaxDay
QuitDates == {0, 1}
Counts == {0, 5}
Baselines == {20}
Prices == {1000}
PackSizes == {20}

(* ------------------------------ helpers -------------------------------- *)

HoursPerDay == 24

Max(a, b) == IF a >= b THEN a ELSE b
Min(a, b) == IF a <= b THEN a ELSE b

\* _today_utc: the calendar date of the instant t.
today_utc(t) == t \div HoursPerDay

\* _as_utc_datetime: midnight UTC of the calendar date d.
as_utc_datetime(d) == d * HoursPerDay

\* datetime.date(): the calendar date part of a stored datetime.
date_of(dt) == dt \div HoursPerDay

\* Faulty variant: the difference is taken the wrong way round.
days_between_Swapped(today, quit_date) == quit_date - today

\* (today - quit_date).days
days_between(today, quit_date) == today - quit_date

\* Python's `v or dflt`: None and 0 are falsy.
OrDefault(v, dflt) == IF v = None \/ v = 0 THEN dflt ELSE v

\* round(x, 2) of the amount x = num / den cents (num >= 0, den > 0), as a
\* whole number of cents: Python rounds half to even.
RoundDiv(num, den) ==
    LET q == num \div den
        r == num % den
    IN  IF 2 * r < den THEN q
        ELSE IF 2 * r > den THEN q + 1
        ELSE IF q % 2 = 0 THEN q ELSE q + 1

\* collection.find({"uid": user_uid})
FindUid(coll, user_uid) == {doc \in BagToSet(coll) : doc.uid = user_uid}

\* collection.find({"user_id": user_id})
FindUserId(coll, user_id) == {doc \in BagToSet(coll) : doc.user_id = user_id}

\* create_document / insert_one: one more copy of doc in the collection.
create_document(coll, doc) == coll (+) SetToBag({doc})

\* _ensure_user raises 404 when find_one({"uid": user_uid}) finds nothing.
NotFound(users, user_uid) ==
    FindUid(users, user_uid) = {}

\* _ensure_user: the document find_one({"uid": user_uid}) returns.
ensure_user(users, user_uid) ==
    CHOOSE doc \in FindUid(users, user_uid) : TRUE

(* ------------------------------ statistics ----------------------------- *)

milestones == <<1, 3, 7, 14, 30, 60, 90>>
streak_ladder == <<3, 7, 14, 30, 60>>
savings_ladder == <<10, 50, 100, 250, 500>>

RECURSIVE SeqMax(_)
SeqMax(s) == IF Len(s) = 1 THEN s[1] ELSE Max(s[1], SeqMax(Tail(s)))

\* days_logged: the dict from calendar date to cigarettes_count built from
\* the user's check-ins (lines 259-271).  Were there two documents of one
\* date the later would overwrite the earlier; a bag keeps no order, and
\* with one document per date the choice below is forced.
days_logged(checkins) ==
    [d \in {date_of(c.date) : c \in checkins} |->
        (CHOOSE c \in checkins : date_of(c.date) = d).cigarettes_count]

\* days_logged.get(d, None)
Get(logged, d) == IF d \in DOMAIN logged THEN logged[d] ELSE None

\* Faulty variant: `if not cigs` counts a day without check-in as smoke-free.
RECURSIVE SmokeFreeLoop_Falsy(_, _, _, _, _, _)
SmokeFreeLoop_Falsy(i, acc, days_since_quit, quit_date, today, logged) ==
    IF i >= days_since_quit + 1 THEN acc
    ELSE LET d == IF quit_date # None THEN quit_date + i ELSE today
             cigs == Get(logged, d)
         IN  SmokeFreeLoop_Falsy(i + 1,
                           IF cigs = None \/ cigs = 0 THEN acc + 1 ELSE acc,
                           days_since_quit, quit_date, today, logged)

\* for i in range(days_since_quit + 1): count the days with a zero check-in.
RECURSIVE SmokeFreeLoop(_, _, _, _, _, _)
SmokeFreeLoop(i, acc, days_since_quit, quit_date, today, logged) ==
    IF i >= days_since_quit + 1 THEN acc
    ELSE LET d == IF quit_date # None THEN quit_date + i ELSE today
             cigs == Get(logged, d)
         IN  SmokeFreeLoop(i + 1,
                           IF cigs # None /\ cigs = 0 THEN acc + 1 ELSE acc,
                           days_since_quit, quit_date, today, logged)

\* Faulty variant: the walk does not stop at quit_date.
RECURSIVE StreakLoop_PastQuit(_, _, _, _)
StreakLoop_PastQuit(d, current_streak, quit_date, logged) ==
    IF Get(logged, d) = 0
    THEN StreakLoop_PastQuit(d - 1, current_streak + 1, quit_date, logged)
    ELSE current_streak

\* while d >= quit_date: walk backward while the day has a zero check-in.
RECURSIVE StreakLoop(_, _, _, _)
StreakLoop(d, current_streak, quit_date, logged) ==
    IF d >= quit_date /\ Get(logged, d) = 0
    THEN StreakLoop(d - 1, current_streak + 1, quit_date, logged)
    ELSE current_streak

\* sum([cnt for cnt in days_logged.values()])
RECURSIVE SumValues(_, _)
SumValues(logged, dom) ==
    IF dom = {} THEN 0
    ELSE LET d == CHOOSE x \in dom : TRUE
         IN  logged[d] + SumValues(logged, dom \ {d})

\* progress = min(days_since_quit / max(milestones) * 100, 100), kept exact
\* as its numerator over max(milestones).
Progress(days_since_quit) ==
    IF Len(milestones) > 0
    THEN Min(days_since_quit * 100, 100 * SeqMax(milestones))
    ELSE 0

\* days_since_quit = (today - quit_date).days if quit_date else 0
raw_days_since_quit(user_doc, t) ==
    IF user_doc.quit_date # None
    THEN days_between(today_utc(t), user_doc.quit_date)
    ELSE 0

\* "days_since_quit": max(days_since_quit, 0), the value the snapshot returns.
returned_days_since_quit(user_doc, t) ==
    Max(raw_days_since_quit(user_doc, t), 0)

\* _compute_stats(user_doc): the snapshot, read from the check-in collection
\* coll at instant t.  Amounts are in cents.
compute_stats(user_doc, coll, t) ==
    LET quit_date == user_doc.quit_date
        today == today_utc(t)
        days_since_quit == raw_days_since_quit(user_doc, t)
        baseline_daily == OrDefault(user_doc.daily_cig_before, 0)
        price_per_pack == OrDefault(user_doc.price_per_pack, 0)
        cigs_per_pack == OrDefault(user_doc.cigs_per_pack, 20)
        checkins == IF quit_date # None
                    THEN FindUserId(coll, user_doc.uid)
                    ELSE {}
        logged == days_logged(checkins)
        smoke_free_days ==
            SmokeFreeLoop(0, 0, days_since_quit, quit_date, today, logged)
        current_streak ==
            IF quit_date # None THEN StreakLoop(today, 0, quit_date, logged)
            ELSE 0
        \* cost_per_cig = price_per_pack / cigs_per_pack if cigs_per_pack else 0
        cost_num == IF cigs_per_pack # 0 THEN price_per_pack ELSE 0
        cost_den == IF cigs_per_pack # 0 THEN cigs_per_pack ELSE 1
        total_cigs_logged == SumValues(logged, DOMAIN logged)
        total_days == Max(days_since_quit + 1, 1)
        cigs_avoided == Max(baseline_daily * total_days - total_cigs_logged, 0)
    IN  [days_since_quit |-> returned_days_since_quit(user_doc, t),
         current_streak |-> current_streak,
         smoke_free_days |-> smoke_free_days,
         savings |-> RoundDiv(cigs_avoided * cost_num, cost_den),
         baseline_daily |-> baseline_daily,
         expected_daily_spend |-> RoundDiv(baseline_daily * cost_num, cost_den),
         progress |-> Progress(days_since_quit)]

(* ------------------------------ badges --------------------------------- *)

\* f"days_{m}", f"streak_{m}", f"savings_{m}"
badge_key(prefix, m) == prefix \o "_" \o ToString(m)

\* _badge_exists: find_one({"user_id": user_id, "key": key}) is not None.
badge_exists(coll, user_id, key) ==
    {b \in FindUserId(coll, user_id) : b.key = key} # {}

\* Faulty variant: the badge is inserted without the existence lookup.
award_badge_NoLookup(coll, user_id, key, t) ==
    create_document(coll,
        [user_id |-> user_id, key |-> key, awarded_at |-> t])

\* _award_badge: insert the badge, dated t, unless the lookup finds the key.
award_badge(coll, user_id, key, t) ==
    IF badge_exists(coll, user_id, key) THEN coll
    ELSE create_document(coll,
             [user_id |-> user_id, key |-> key, awarded_at |-> t])

\* Faulty variant: a threshold counts only once it is exceeded.
RECURSIVE LadderKeys_Strict(_, _, _, _)
LadderKeys_Strict(prefix, ladder, value, unit) ==
    IF ladder = <<>> THEN <<>>
    ELSE (IF value > Head(ladder) * unit
          THEN <<badge_key(prefix, Head(ladder))>> ELSE <<>>)
         \o LadderKeys_Strict(prefix, Tail(ladder), value, unit)

\* The keys of one ladder whose threshold the value meets, in ladder order.
RECURSIVE LadderKeys(_, _, _, _)
LadderKeys(prefix, ladder, value, unit) ==
    IF ladder = <<>> THEN <<>>
    ELSE (IF value >= Head(ladder) * unit
          THEN <<badge_key(prefix, Head(ladder))>> ELSE <<>>)
         \o LadderKeys(prefix, Tail(ladder), value, unit)

\* The _award_badge calls _maybe_award_badges makes for stats, in order
\* (savings is in cents, its ladder in whole currency units).
Candidates(stats) ==
    LadderKeys("days", milestones, stats.days_since_quit, 1)
    \o LadderKeys("streak", streak_ladder, stats.current_streak, 1)
    \o LadderKeys("savings", savings_ladder, stats.savings, 100)

RECURSIVE AwardAll(_, _, _, _)
AwardAll(coll, user_id, keys, t) ==
    IF keys = <<>> THEN coll
    ELSE AwardAll(award_badge(coll, user_id, Head(keys), t),
                  user_id, Tail(keys), t)

\* _maybe_award_badges(user_id, stats) run without interruption: the badge
\* collection afterwards (user is the document _ensure_user returned).
maybe_award_badges(coll, user, stats, t) ==
    AwardAll(coll, user.uid, Candidates(stats), t)

(* ------------------------------ store updates -------------------------- *)

\* Faulty variant: the upsert always inserts.
upsert_one_Insert(coll, user_id, ddt, cigarettes_count) ==
    create_document(coll, [user_id |-> user_id, date |-> ddt,
                           cigarettes_count |-> cigarettes_count])

\* update_one({"user_id", "date"}, {"$set": {cigarettes_count, date}},
\* upsert=True): the first match is updated in place, else a document made
\* of the filter and the $set fields is inserted.
upsert_one(coll, user_id, ddt, cigarettes_count) ==
    LET found == {c \in FindUserId(coll, user_id) : c.date = ddt}
        new == [user_id |-> user_id, date |-> ddt,
                cigarettes_count |-> cigarettes_count]
    IN  IF found = {} THEN create_document(coll, new)
        ELSE LET old == CHOOSE c \in found : TRUE
             IN  (coll (-) SetToBag({old})) (+) SetToBag({new})

\* {"$set": update} applied to a profile document; payload fields that are
\* Unset were not sent (model_dump(exclude_unset=True)).
SetFields(doc, payload) ==
    [f \in DOMAIN doc |->
        IF f \in DOMAIN payload /\ payload[f] # Unset THEN payload[f]
        ELSE doc[f]]

UpdatePayloads ==
    [quit_date : QuitDates \cup {None, Unset},
     daily_cig_before : {Unset},
     price_per_pack : {Unset},
     cigs_per_pack : {0, Unset}]

CreatePayloads ==
    [quit_date : QuitDates,
     daily_cig_before : Baselines,
     price_per_pack : Prices,
     cigs_per_pack : PackSizes]

(* ------------------------------ state ---------------------------------- *)

\* last: the request served last, with what it was given and what it
\* computed (status 0: none since the day began).
Served(op, user_id, status) ==
    [op |-> op, user_id |-> user_id, status |-> status]

Idle == [pc |-> "idle"]

Init ==
    /\ now = HoursPerDay \div 2
    /\ userprofile = EmptyBag
    /\ checkin = EmptyBag
    /\ badge = EmptyBag
    /\ last = Served("none", "", 0)
    /\ procs = [p \in Procs |-> Idle]

\* Time passes: the next calendar day begins.
NextDay ==
    /\ today_utc(now) < MaxDay
    /\ now' = now + HoursPerDay
    /\ last' = Served("none", "", 0)
    /\ UNCHANGED <<userprofile, checkin, badge, procs>>

\* POST /api/users: uid is fresh (uuid4).
create_user ==
    \E payload \in CreatePayloads, uid \in Uids :
        /\ NotFound(userprofile, uid)
        /\ userprofile' = create_document(userprofile,
               [uid |-> uid] @@ payload)
        /\ last' = Served("create_user", uid, 200)
        /\ UNCHANGED <<now, checkin, badge, procs>>

\* PUT /api/users/{user_id}
update_user ==
    \E user_id \in Uids, payload \in UpdatePayloads :
        LET user == ensure_user(userprofile, user_id)
            empty == \A f \in DOMAIN payload : payload[f] = Unset
        IN  /\ IF empty THEN
                  /\ last' = Served("update_user", user_id, 200)
                  /\ UNCHANGED userprofile
               ELSE IF NotFound(userprofile, user_id) THEN
                  /\ last' = Served("update_user", user_id, 404)
                  /\ UNCHANGED userprofile
               ELSE
                  /\ userprofile' = (userprofile (-) SetToBag({user}))
                                    (+) SetToBag({SetFields(user, payload)})
                  /\ last' = Served("update_user", user_id, 200)
            /\ UNCHANGED <<now, checkin, badge, procs>>

\* POST /api/checkins, run without interruption.
upsert_checkin ==
    \E user_id \in Uids, date \in Days \cup {None}, cigarettes_count \in Counts :
        LET user == ensure_user(userprofile, user_id)
            d == IF date # None THEN date ELSE today_utc(now)
            ddt == as_utc_datetime(d)
            coll == upsert_one(checkin, user_id, ddt, cigarettes_count)
            stats == compute_stats(user, coll, now)
        IN  /\ IF NotFound(userprofile, user_id) THEN
                  /\ last' = Served("upsert_checkin", user_id, 404)
                  /\ UNCHANGED <<checkin, badge>>
               ELSE
                  /\ checkin' = coll
                  /\ badge' = maybe_award_badges(badge, user, stats, now)
                  /\ last' = Served("upsert_checkin", user_id, 200)
                             @@ [date |-> d, cigarettes_count |-> cigarettes_count,
                                 stats |-> stats]
            /\ UNCHANGED <<now, userprofile, procs>>

\* GET /api/dashboard, run without interruption.
dashboard ==
    \E user_id \in Uids :
        LET user == ensure_user(userprofile, user_id)
            stats == compute_stats(user, checkin, now)
        IN  /\ IF NotFound(userprofile, user_id) THEN
                  /\ last' = Served("dashboard", user_id, 404)
                  /\ UNCHANGED badge
               ELSE
                  /\ badge' = maybe_award_badges(badge, user, stats, now)
                  /\ last' = Served("dashboard", user_id, 200)
                             @@ [stats |-> stats]
            /\ UNCHANGED <<now, userprofile, checkin, procs>>

Next ==
    \/ NextDay
    \/ create_user
    \/ update_user
    \/ upsert_checkin
    \/ dashboard

Spec == Init /\ [][Next]_vars

(* ------------------------------ concurrent requests ----------------- *)

\* The awarding requests, POST /api/checkins and GET /api/dashboard, served
\* concurrently with one another, with sign-ups and with the passing of time.

\* Requests are served concurrently: a request in flight is a process that
\* performs the store operations of its handler one at a time, and the
\* operations of different requests interleave.  procs[p] is the position of
\* process p in its handler together with the handler's local variables.

\* The position after one _award_badge call returns: the next lookup, or the
\* end of the handler.
AfterAward(proc, keys) ==
    IF keys = <<>> THEN Idle
    ELSE [proc EXCEPT !.pc = "lookup", !.todo = keys]

\* The handler is entered and _ensure_user looks the user up (a request for
\* an unknown user answers 404 and touches nothing).
Start(p) ==
    \E op \in {"upsert_checkin", "dashboard"}, user_id \in Uids,
       cigarettes_count \in Counts :
        /\ procs[p].pc = "idle"
        /\ op = "dashboard" => cigarettes_count = 0
        /\ ~NotFound(userprofile, user_id)
        /\ procs' = [procs EXCEPT ![p] =
               [pc |-> IF op = "dashboard" THEN "stats" ELSE "upsert",
                op |-> op,
                user |-> ensure_user(userprofile, user_id),
                cigarettes_count |-> cigarettes_count,
                stats |-> None,
                todo |-> <<>>]]
        /\ UNCHANGED <<now, userprofile, checkin, badge, last>>

\* upsert_checkin: d = payload.date or _today_utc(), here with no date sent,
\* then the update_one upsert.
UpsertStep(p) ==
    /\ procs[p].pc = "upsert"
    /\ checkin' = upsert_one(checkin, procs[p].user.uid,
                             as_utc_datetime(today_utc(now)),
                             procs[p].cigarettes_count)
    /\ procs' = [procs EXCEPT ![p].pc = "ensure"]
    /\ UNCHANGED <<now, userprofile, badge, last>>

\* _maybe_award_badges: user = _ensure_user(user_id).
EnsureStep(p) ==
    /\ procs[p].pc = "ensure"
    /\ procs' = [procs EXCEPT ![p] =
           IF procs[p].op = "dashboard"
           THEN AfterAward([procs[p] EXCEPT
                               !.user = ensure_user(userprofile, @.uid)],
                           Candidates(procs[p].stats))
           ELSE [procs[p] EXCEPT
                    !.pc = "stats",
                    !.user = ensure_user(userprofile, @.uid)]]
    /\ UNCHANGED <<now, userprofile, checkin, badge, last>>

\* _compute_stats(user): today is read and the user's check-ins are fetched.
StatsStep(p) ==
    /\ procs[p].pc = "stats"
    /\ LET stats == compute_stats(procs[p].user, checkin, now)
       IN  procs' = [procs EXCEPT ![p] =
               IF procs[p].op = "dashboard"
               THEN [procs[p] EXCEPT !.pc = "ensure", !.stats = stats]
               ELSE AfterAward([procs[p] EXCEPT !.stats = stats],
                               Candidates(stats))]
    /\ UNCHANGED <<now, userprofile, checkin, badge, last>>

\* _award_badge: if _badge_exists(user_id, key): return
LookupStep(p) ==
    /\ procs[p].pc = "lookup"
    /\ procs' = [procs EXCEPT ![p] =
           IF badge_exists(badge, procs[p].user.uid, Head(procs[p].todo))
           THEN AfterAward(procs[p], Tail(procs[p].todo))
           ELSE [procs[p] EXCEPT !.pc = "insert"]]
    /\ UNCHANGED <<now, userprofile, checkin, badge, last>>

\* _award_badge: create_document("badge", Badge(..., awarded_at=now))
InsertStep(p) ==
    /\ procs[p].pc = "insert"
    /\ badge' = create_document(badge,
           [user_id |-> procs[p].user.uid, key |-> Head(procs[p].todo),
            awarded_at |-> now])
    /\ procs' = [procs EXCEPT ![p] = AfterAward(procs[p], Tail(procs[p].todo))]
    /\ UNCHANGED <<now, userprofile, checkin, last>>

NextConc ==
    \/ NextDay
    \/ create_user
    \/ \E p \in Procs : Start(p)
    \/ \E p \in Procs : UpsertStep(p)
    \/ \E p \in Procs : EnsureStep(p)
    \/ \E p \in Procs : StatsStep(p)
    \/ \E p \in Procs : LookupStep(p)
    \/ \E p \in Procs : InsertStep(p)

SpecConc == Init /\ [][NextConc]_vars

(* ------------------------------ statistics alone ----------------------- *)

\* _compute_stats as a function of its inputs: a stored profile that has a
\* quit_date, a check-in log with one document per (user_id, date) and the
\* calendar day of the call.
StatDays == 0..MaxStatDay

StatProfiles ==
    [uid : {"u1"},
     quit_date : StatDays,
     daily_cig_before : Baselines,
     price_per_pack : Prices,
     cigs_per_pack : PackSizes]

\* The check-in collection that holds log[d] for every day d of the log.
LogBag(user_id, log) ==
    SetToBag({[user_id |-> user_id, date |-> as_utc_datetime(d),
               cigarettes_count |-> log[d]] : d \in DOMAIN log})

StatLogs == UNION {[dom -> Counts] : dom \in SUBSET StatDays}

InitStats ==
    /\ now \in {as_utc_datetime(d) + HoursPerDay \div 2 : d \in StatDays}
    /\ userprofile \in {SetToBag({user}) : user \in StatProfiles}
    /\ \E log \in StatLogs, other \in {<<>>, [d \in StatDays |-> 0]} :
           checkin = LogBag("u1", log) (+) LogBag("u2", other)
    /\ badge = EmptyBag
    /\ last = Served("none", "", 0)
    /\ procs = [p \in Procs |-> Idle]

ComputeSnapshot ==
    /\ last.op = "none"
    /\ last' = Served("compute_stats", "u1", 200)
               @@ [stats |-> compute_stats(ensure_user(userprofile, "u1"),
                                           checkin, now)]
    /\ UNCHANGED <<now, userprofile, checkin, badge, procs>>

NextStats == ComputeSnapshot

SpecStats == InitStats /\ [][NextStats]_vars

(* ------------------------------ claims --------------------------------- *)

\* The request served last ran to completion and answered 200.
Completed(ops) == last.op \in ops /\ last.status = 200

LastUser == ensure_user(userprofile, last.user_id)

\* The user's check-in of calendar day d says zero cigarettes.
ZeroDay(user_id, d) ==
    \E c \in BagToSet(checkin) :
        /\ c.user_id = user_id
        /\ c.date = as_utc_datetime(d)
        /\ c.cigarettes_count = 0

\* The k days ending today are all zero check-in days not before quit_date.
TrailingRun(user, k) ==
    \A j \in 0..(k - 1) :
        /\ today_utc(now) - j >= user.quit_date
        /\ ZeroDay(user.uid, today_utc(now) - j)

\* C4: for a profile with a quit_date, current_streak is the length of the
\* longest run of consecutive days ending today, none before quit_date, that
\* all have a check-in of exactly 0.
C4_CurrentStreak ==
    Completed({"compute_stats"}) =>
        LET user == LastUser
            k == last.stats.current_streak
        IN  /\ k >= 0
            /\ TrailingRun(user, k)
            /\ ~TrailingRun(user, k + 1)

\* The log {day0: 0, day1: 0, day2: 5, day3: 0} evaluated on day3.
C4_Witness ==
    /\ Completed({"compute_stats"})
    /\ today_utc(now) = 3
    /\ LastUser.quit_date = 0
    /\ ZeroDay("u1", 3) /\ ~ZeroDay("u1", 2) /\ ZeroDay("u1", 1) /\ ZeroDay("u1", 0)
    /\ last.stats.current_streak = 1

\* C5: for a profile with a quit_date, smoke_free_days is the number of days
\* d with quit_date <= d <= today that have a check-in of exactly 0.
C5_SmokeFreeDays ==
    Completed({"compute_stats"}) =>
        LET user == LastUser
        IN  last.stats.smoke_free_days =
                Cardinality({d \in user.quit_date..today_utc(now) :
                                ZeroDay(user.uid, d)})

C5_Witness ==
    /\ Completed({"compute_stats"})
    /\ today_utc(now) = 3
    /\ LastUser.quit_date = 0
    /\ ZeroDay("u1", 3) /\ ~ZeroDay("u1", 2) /\ ZeroDay("u1", 1) /\ ZeroDay("u1", 0)
    /\ last.stats.smoke_free_days = 3
    /\ last.stats.current_streak = 1

(* ------------------------------ check-ins ------------------------------ *)

\* The number of documents of bag coll that are copies of one of docs.
RECURSIVE CopiesOf(_, _)
CopiesOf(coll, docs) ==
    IF docs = {} THEN 0
    ELSE LET doc == CHOOSE x \in docs : TRUE
         IN  CopiesIn(doc, coll) + CopiesOf(coll, docs \ {doc})

SameDay(c, user_id, d) == c.user_id = user_id /\ c.date = as_utc_datetime(d)

C2_OnePerDay ==
    \A c \in BagToSet(checkin) :
        CopiesOf(checkin, {x \in BagToSet(checkin) :
                              x.user_id = c.user_id /\ x.date = c.date}) = 1

C2_LatestCount ==
    Completed({"upsert_checkin"}) =>
        \E c \in BagToSet(checkin) :
            /\ SameDay(c, last.user_id, last.date)
            /\ c.cigarettes_count = last.cigarettes_count

\* A step changes the check-in collection only by an upsert, and then only
\* the document of the upsert's (user_id, date).
C2_OthersKept ==
    IF last'.op = "upsert_checkin" /\ last'.status = 200
    THEN \A c \in BagToSet(checkin) \cup BagToSet(checkin') :
             ~SameDay(c, last'.user_id, last'.date) =>
                 CopiesIn(c, checkin') = CopiesIn(c, checkin)
    ELSE checkin' = checkin

\* C2: after any sequence of check-in upserts the collection holds at most
\* one document per (user_id, date), carrying the count of the latest upsert
\* for that (user_id, date); an upsert leaves every other document unchanged.
C2_Upsert ==
    /\ [](C2_OnePerDay /\ C2_LatestCount)
    /\ [][C2_OthersKept]_vars

\* An upsert has just overwritten the zero check-in of day 1 (the streak_3
\* badge shows days 0, 1 and 2 all held zero) with a count of 5.
C2_Witness ==
    /\ Completed({"upsert_checkin"})
    /\ last.date = 1
    /\ last.cigarettes_count = 5
    /\ today_utc(now) = 2
    /\ badge_exists(badge, last.user_id, "streak_3")
    /\ CopiesOf(checkin, FindUserId(checkin, last.user_id)) = 3

(* ------------------------------ awarding ------------------------------- *)

Awarding == {"upsert_checkin", "dashboard"}

\* C3: with requests run one at a time, evaluating the awards again with the
\* same stats once the first evaluation's badges are stored, at a later
\* instant, inserts no badge and leaves every awarded_at as it is.
C3_AwardIdempotent ==
    Completed(Awarding) =>
        maybe_award_badges(badge, LastUser, last.stats, now + HoursPerDay)
            = badge

C3_Witness ==
    /\ Completed(Awarding)
    /\ Len(Candidates(last.stats)) >= 2
    /\ CopiesOf(badge, FindUserId(badge, last.user_id)) >= 2

Holds(user_id, key) ==
    \E b \in BagToSet(badge) : b.user_id = user_id /\ b.key = key

\* The keys whose threshold the snapshot meets.
Earned(stats) ==
    {badge_key("days", m) :
        m \in {m \in {1, 3, 7, 14, 30, 60, 90} : stats.days_since_quit >= m}}
    \cup {badge_key("streak", m) :
        m \in {m \in {3, 7, 14, 30, 60} : stats.current_streak >= m}}
    \cup {badge_key("savings", m) :
        m \in {m \in {10, 50, 100, 250, 500} : stats.savings >= 100 * m}}

C10_EarnedHeld ==
    Completed(Awarding) =>
        /\ last.stats = compute_stats(LastUser, checkin, now)
        /\ \A key \in Earned(last.stats) : Holds(last.user_id, key)

C10_OnlyEarned ==
    \A b \in BagToSet(badge') :
        CopiesIn(b, badge') > CopiesIn(b, badge) =>
            /\ last'.op \in Awarding
            /\ last'.status = 200
            /\ b.user_id = last'.user_id
            /\ b.key \in Earned(last'.stats)

\* C10: a check-in upsert or dashboard fetch that runs alone leaves the user
\* holding every badge whose threshold the stats of the request's store
\* contents meet, and inserts no badge whose threshold they do not meet.
C10_Award ==
    /\ []C10_EarnedHeld
    /\ [][C10_OnlyEarned]_vars

C10_Witness ==
    /\ Completed({"upsert_checkin"})
    /\ last.stats.days_since_quit >= 1
    /\ last.stats.current_streak >= 3
    /\ last.stats.savings >= 1000
    /\ Holds(last.user_id, "days_1")
    /\ Holds(last.user_id, "streak_3")
    /\ Holds(last.user_id, "savings_10")
    /\ ~Holds(last.user_id, "savings_50")

(* ------------------------------ monotonicity --------------------------- *)

\* The snapshot a request computes for the user from the profiles users and
\* the check-ins coll at instant t.
StatsAt(users, coll, t, user_id) ==
    compute_stats(ensure_user(users, user_id), coll, t)

Stats(user_id) == StatsAt(userprofile, checkin, now, user_id)

\* The user has a profile before and after the step.
Stays(user_id) ==
    ~NotFound(userprofile, user_id) /\ ~NotFound(userprofile', user_id)

\* m is a threshold the metric had reached and has fallen below.
Lost(ladder, before, after) ==
    \E m \in ladder : before >= m /\ after < m

\* C9 as stated: a ladder threshold a metric has reached stays reached after
\* any check-in upsert, profile update or day change.
C9_LadderMonotonic ==
    [][\A user_id \in Uids :
          Stays(user_id) =>
              LET before == Stats(user_id)
                  after == StatsAt(userprofile', checkin', now', user_id)
              IN  /\ ~Lost({1, 3, 7, 14, 30, 60, 90},
                           before.days_since_quit, after.days_since_quit)
                  /\ ~Lost({3, 7, 14, 30, 60},
                           before.current_streak, after.current_streak)
                  /\ ~Lost({1000, 5000, 10000, 25000, 50000},
                           before.savings, after.savings)]_vars

\* C9 amended: days_since_quit keeps every threshold it has reached across
\* the steps that leave quit_date as it is, and a stored badge is never
\* removed or re-dated, whatever becomes of the metric it was awarded for.
C9_DaysMonotonicBadgesKept ==
    [][/\ \A user_id \in Uids :
            /\ Stays(user_id)
            /\ ensure_user(userprofile', user_id).quit_date
                 = ensure_user(userprofile, user_id).quit_date
            => ~Lost({1, 3, 7, 14, 30, 60, 90},
                     returned_days_since_quit(
                         ensure_user(userprofile, user_id), now),
                     returned_days_since_quit(
                         ensure_user(userprofile', user_id), now'))
       /\ \A b \in BagToSet(badge) : CopiesIn(b, badge') >= CopiesIn(b, badge)
      ]_vars

\* The streak_3 badge is still held after the streak has fallen below 3, and
\* the days_1 badge of an earlier day while days_since_quit is still >= 1.
C9_Witness ==
    \E user_id \in Uids :
        /\ ~NotFound(userprofile, user_id)
        /\ Stats(user_id).current_streak < 3
        /\ Stats(user_id).days_since_quit >= 1
        /\ Holds(user_id, "streak_3")
        /\ \E b \in BagToSet(badge) :
               b.user_id = user_id /\ b.key = "days_1" /\ b.awarded_at < now

(* ------------------------------ degenerate profiles -------------------- *)

\* C6: a profile without quit_date gives days_since_quit, current_streak,
\* smoke_free_days and savings.amount all 0.
C6_NoQuitDateAllZero ==
    (Completed({"dashboard"}) /\ LastUser.quit_date = None) =>
        /\ last.stats.days_since_quit = 0
        /\ last.stats.current_streak = 0
        /\ last.stats.smoke_free_days = 0
        /\ last.stats.savings = 0

\* C7: progress lies in [0, 100] in every snapshot, and a quit_date after
\* today gives days_since_quit = 0, progress = 0 and no day-count badge.
C7_FutureQuitClamped ==
    Completed({"dashboard"}) =>
        /\ last.stats.progress >= 0
        /\ last.stats.progress <= 100 * 90
        /\ (LastUser.quit_date # None
              /\ LastUser.quit_date > today_utc(now)) =>
               /\ last.stats.days_since_quit = 0
               /\ last.stats.progress = 0
               /\ \A m \in {1, 3, 7, 14, 30, 60, 90} :
                      badge_key("days", m) \notin Earned(last.stats)

\* C8: a stored cigs_per_pack of 0 gives expected_daily_spend = 0 and
\* savings.amount = 0.
C8_ZeroPackNoCost ==
    (Completed({"dashboard"}) /\ LastUser.cigs_per_pack = 0) =>
        /\ last.stats.expected_daily_spend = 0
        /\ last.stats.savings = 0

(* ------------------------------ badge uniqueness ----------------------- *)

\* C1: under any interleaving of concurrent check-in upsert and dashboard
\* requests the badge collection holds at most one document per
\* (user_id, key).
C1_OneBadgePerKey ==
    \A b \in BagToSet(badge) :
        CopiesOf(badge, {x \in BagToSet(badge) :
                            x.user_id = b.user_id /\ x.key = b.key}) = 1

====
